---- MODULE Spec2Model ----
(***************************************************************************)
(* Crawl-and-extract engine of the scrapers (WebsiteScraper in            *)
(* webscrapper/web_scrapper.py, WordPressScraper in                       *)
(* wordpress_scrapper/playwright_wordpress_scraper.py and                 *)
(* wordpress_scrapper/rag_enahnced/new_rag_wordpress_scrapper.py).        *)
(*                                                                         *)
(* Python strings are modelled as tuples of one-character strings, so     *)
(* that endswith, split, "in", urlparse, urljoin and re.sub are computed  *)
(* character by character as the code computes them.                      *)
(***************************************************************************)
EXTENDS Integers, Sequences, FiniteSets, TLC

(***************************************************************************)
(* str methods                                                             *)
(***************************************************************************)
UpperCase == <<"A","B","C","D","E","F","G","H","I","J","K","L","M","N","O","P","Q","R","S","T","U","V","W","X","Y","Z">>

LowerCase == <<"a","b","c","d","e","f","g","h","i","j","k","l","m","n","o","p","q","r","s","t","u","v","w","x","y","z">>

Digits == <<"0","1","2","3","4","5","6","7","8","9">>

\* s.endswith(t)
EndsWith(s, t) ==
    /\ Len(t) <= Len(s)
    /\ SubSeq(s, Len(s) - Len(t) + 1, Len(s)) = t

\* s.startswith(t)
StartsWith(s, t) ==
    /\ Len(t) <= Len(s)
    /\ SubSeq(s, 1, Len(t)) = t

\* t in s
Contains(s, t) ==
    \E i \in 1..(Len(s) - Len(t) + 1) : SubSeq(s, i, i + Len(t) - 1) = t

\* the first position at or after i where s holds a character of cs, 0 if none
RECURSIVE FindFrom(_, _, _)
FindFrom(s, cs, i) ==
    IF i > Len(s) THEN 0 ELSE IF s[i] \in cs THEN i ELSE FindFrom(s, cs, i + 1)

\* the last position at or before i where s holds the character c, 0 if none
RECURSIVE RFindFrom(_, _, _)
RFindFrom(s, c, i) ==
    IF i < 1 THEN 0 ELSE IF s[i] = c THEN i ELSE RFindFrom(s, c, i - 1)

\* s.find(c) + 1 for a one-character c: the first position of c in s, 0 if none
Find(s, c) == FindFrom(s, {c}, 1)

\* s.rfind(c) + 1: the last position of c in s, 0 if none
RFind(s, c) == RFindFrom(s, c, Len(s))

\* c.lower() for one character
LowerMap ==
    [c \in {UpperCase[i] : i \in 1..Len(UpperCase)} |->
        LowerCase[CHOOSE i \in 1..Len(UpperCase) : UpperCase[i] = c]]

\* s.lower()
Lower(s) == [i \in 1..Len(s) |-> IF s[i] \in DOMAIN LowerMap THEN LowerMap[s[i]] ELSE s[i]]

\* s.split(c)[0]
SplitHead(s, c) == LET i == Find(s, c) IN IF i = 0 THEN s ELSE SubSeq(s, 1, i - 1)

\* the rest of s after the first c (empty when c does not occur)
SplitTail(s, c) == LET i == Find(s, c) IN IF i = 0 THEN <<>> ELSE SubSeq(s, i + 1, Len(s))

\* str(n) for a natural number n
RECURSIVE ToStr(_)
ToStr(n) == IF n < 10 THEN <<Digits[n + 1]>> ELSE ToStr(n \div 10) \o <<Digits[(n % 10) + 1]>>

(***************************************************************************)
(* urllib.parse                                                            *)
(***************************************************************************)

\* c.isalpha() for an ASCII character
IsAlpha(c) ==
    c \in {LowerCase[i] : i \in 1..Len(LowerCase)} \cup {UpperCase[i] : i \in 1..Len(UpperCase)}

\* c.isdigit() for an ASCII character
IsDigit(c) == c \in {Digits[i] : i \in 1..Len(Digits)}

\* urlsplit's scheme test: the text before the first ":" is a scheme when it
\* starts with a letter and holds only letters, digits, "+", "-", "."
HasScheme(url) ==
    LET i == Find(url, ":")
    IN  /\ i > 1
        /\ IsAlpha(url[1])
        /\ \A j \in 1..(i - 1) : IsAlpha(url[j]) \/ IsDigit(url[j]) \/ url[j] \in {"+", "-", "."}

\* the end of the network location: the first of "/", "?", "#" in s, or the end of s
NetlocEnd(s) ==
    LET i == FindFrom(s, {"/", "?", "#"}, 1)
    IN  IF i = 0 THEN Len(s) ELSE i - 1

\* urlsplit, "fragment" and "query": rest is what follows the network location
split_path(scheme, netloc, rest) ==
    [scheme   |-> scheme,
     netloc   |-> netloc,
     path     |-> SplitHead(SplitHead(rest, "#"), "?"),
     query    |-> SplitTail(SplitHead(rest, "#"), "?"),
     fragment |-> SplitTail(rest, "#")]

\* _splitnetloc: after is what follows the "//"
split_netloc(scheme, after) ==
    split_path(scheme, SubSeq(after, 1, NetlocEnd(after)),
               SubSeq(after, NetlocEnd(after) + 1, Len(after)))

\* urlsplit, "netloc": rest is what follows the scheme
split_authority(scheme, rest) ==
    IF StartsWith(rest, <<"/","/">>)
    THEN split_netloc(scheme, SubSeq(rest, 3, Len(rest)))
    ELSE split_path(scheme, <<>>, rest)

\* urlparse(url): scheme, netloc, path, query, fragment; the scheme is the
\* lowered text before the first ":" (empty: none)
urlparse(url) ==
    IF HasScheme(url)
    THEN split_authority(Lower(SubSeq(url, 1, Find(url, ":") - 1)),
                         SubSeq(url, Find(url, ":") + 1, Len(url)))
    ELSE split_authority(<<>>, url)

\* urlunparse
urlunparse(scheme, netloc, path, query, fragment) ==
    LET p == IF netloc # <<>> /\ path # <<>> /\ path[1] # "/" THEN <<"/">> \o path ELSE path
    IN  (IF scheme # <<>> THEN scheme \o <<":">> ELSE <<>>)
        \o (IF netloc # <<>> THEN <<"/","/">> \o netloc ELSE <<>>)
        \o p
        \o (IF query # <<>> THEN <<"?">> \o query ELSE <<>>)
        \o (IF fragment # <<>> THEN <<"#">> \o fragment ELSE <<>>)

\* urljoin on the parsed base b and the parsed reference u
join_parsed(url, b, u) ==
    LET scheme == IF u.scheme = <<>> THEN b.scheme ELSE u.scheme
    IN  IF scheme # b.scheme \/ scheme \notin {<<"h","t","t","p">>, <<"h","t","t","p","s">>} THEN url
        ELSE IF u.netloc # <<>> THEN urlunparse(scheme, u.netloc, u.path, u.query, u.fragment)
        ELSE IF u.path = <<>>
             THEN urlunparse(scheme, b.netloc, b.path,
                             IF u.query = <<>> THEN b.query ELSE u.query, u.fragment)
        ELSE urlunparse(scheme, b.netloc,
                        IF u.path[1] = "/" THEN u.path
                        ELSE IF RFind(b.path, "/") = 0 THEN <<"/">> \o u.path
                        ELSE SubSeq(b.path, 1, RFind(b.path, "/")) \o u.path,
                        u.query, u.fragment)

\* urljoin(base, url) for references without "." and ".." segments
urljoin(base, url) ==
    IF base = <<>> THEN url
    ELSE IF url = <<>> THEN base
    ELSE join_parsed(url, urlparse(base), urlparse(url))

\* os.path.basename(path)
basename(path) == SubSeq(path, RFind(path, "/") + 1, Len(path))

(***************************************************************************)
(* The four scrapers.  variant "web" is WebsiteScraper (web_scrapper.py),  *)
(* "playwright" is WordPressScraper of playwright_wordpress_scraper.py,    *)
(* "rag" is WordPressScraper of rag_enahnced/rag_wordpress_scrapper.py and *)
(* "new_rag" is WordPressScraper of rag_enahnced/new_rag_wordpress_scrapper.py. *)
(***************************************************************************)

\* the scrapers that write one JSON file per page and index.json; the others
\* append to one output file
writes_json(v) == v \in {"rag", "new_rag"}

\* self.document_extensions
document_extensions ==
    {<<".","p","d","f">>, <<".","d","o","c">>, <<".","d","o","c","x">>, <<".","x","l","s">>, <<".","x","l","s","x">>, <<".","p","p","t">>, <<".","p","p","t","x">>, <<".","c","s","v">>,
     <<".","t","x","t">>, <<".","r","t","f">>, <<".","z","i","p">>, <<".","r","a","r">>, <<".","m","p","3">>, <<".","m","p","4">>, <<".","o","d","t">>}

\* ignore_exts of is_valid_url, per scraper
ignore_exts(v) ==
    IF v = "web"
    THEN {<<".","c","s","s">>, <<".","j","s">>, <<".","j","p","g">>, <<".","j","p","e","g">>, <<".","p","n","g">>, <<".","g","i","f">>, <<".","s","v","g">>, <<".","i","c","o">>}
    ELSE {<<".","c","s","s">>, <<".","j","s">>}

\* ignored_patterns of is_valid_url, per scraper (WebsiteScraper has none)
ignored_patterns(v) ==
    IF v = "web" THEN {}
    ELSE IF v = "playwright" THEN {<<"w","p","-","a","d","m","i","n">>, <<"w","p","-","l","o","g","i","n">>, <<"f","e","e","d">>, <<"c","o","m","m","e","n","t">>, <<"?","s","=">>}
    ELSE {<<"w","p","-","a","d","m","i","n">>, <<"w","p","-","l","o","g","i","n">>, <<"f","e","e","d">>, <<"c","o","m","m","e","n","t">>, <<"?","s","=">>, <<"w","p","-","j","s","o","n">>}

\* is_valid_url: parsed_url.netloc and parsed_url.netloc !=
\* urlparse(self.base_url).netloc
other_domain(netloc, base) == netloc # <<>> /\ netloc # urlparse(base).netloc

\* is_valid_url(url) without the extension test
is_valid_url_no_ext_check(v, base, u) ==
    /\ u # <<>>
    /\ ~other_domain(urlparse(u).netloc, base)
    /\ ~(\E pat \in ignored_patterns(v) : Contains(u, pat))

\* is_valid_url(url)
is_valid_url(v, base, u) ==
    /\ u # <<>>
    /\ ~other_domain(urlparse(u).netloc, base)
    /\ LET low == Lower(u) IN ~(\E ext \in ignore_exts(v) : EndsWith(low, ext))
    /\ ~(\E pat \in ignored_patterns(v) : Contains(u, pat))

\* is_document(url)
is_document(u) == LET low == Lower(u) IN \E ext \in document_extensions : EndsWith(low, ext)

\* extract_urls: "Remove trailing slash for consistency in HTML pages"
strip_slash(full_url) ==
    IF full_url # <<>> /\ ~is_document(full_url) /\ EndsWith(full_url, <<"/">>)
    THEN SubSeq(full_url, 1, Len(full_url) - 1)
    ELSE full_url

\* extract_urls: "Remove URL fragments", then the trailing slash
normalize(full_url) == strip_slash(SplitHead(full_url, "#"))

\* extract_urls: the hrefs the loop does not skip
href_taken(href) == href # <<>> /\ ~StartsWith(href, <<"j","a","v","a","s","c","r","i","p","t",":">>)

\* extract_urls: the test that guards found_urls.add, without the visited test
should_add_no_visited_check(v, base, full_url, visited) == is_valid_url(v, base, full_url)

\* extract_urls: the test that guards found_urls.add
should_add(v, base, full_url, visited) ==
    is_valid_url(v, base, full_url) /\ full_url \notin visited

\* extract_urls: what one resolved link adds to found_urls
add_url(v, base, full_url, visited) ==
    IF full_url # <<>> /\ should_add(v, base, full_url, visited) THEN {full_url} ELSE {}

\* a loop over the page's links that stops at the first href it skips
RECURSIVE added_urls_stop_at_skipped(_, _, _, _, _)
added_urls_stop_at_skipped(v, base, page_url, links, visited) ==
    IF links = <<>> \/ ~href_taken(Head(links)) THEN {}
    ELSE add_url(v, base, normalize(urljoin(page_url, Head(links))), visited)
         \cup added_urls_stop_at_skipped(v, base, page_url, Tail(links), visited)

\* extract_urls: the URLs the loop over the page's links passes to found_urls.add
RECURSIVE added_urls(_, _, _, _, _)
added_urls(v, base, page_url, links, visited) ==
    IF links = <<>> THEN {}
    ELSE (IF href_taken(Head(links))
          THEN add_url(v, base, normalize(urljoin(page_url, Head(links))), visited)
          ELSE {})
         \cup added_urls(v, base, page_url, Tail(links), visited)

(***************************************************************************)
(* download_document: file name resolution, clean-up, collision avoidance  *)
(***************************************************************************)
\* self.docs_folder (the default of __init__)
docs_folder == <<"d","o","w","n","l","o","a","d","e","d","_","d","o","c","s">>

\* os.path.join(a, b)
path_join(a, b) ==
    IF b # <<>> /\ b[1] = "/" THEN b
    ELSE IF a = <<>> \/ EndsWith(a, <<"/">>) THEN a \o b
    ELSE a \o <<"/">> \o b

\* os.path.abspath(p) for a path without "." and ".." segments
abspath(p) == IF p # <<>> /\ p[1] = "/" THEN p ELSE path_join(<<"/","s","r","v">>, p)

\* '.' in filename
HasDot(f) == Find(f, ".") # 0

\* the position at which os.path.splitext splits p (0: no extension): the last
\* dot, if it follows the last "/" and a character other than "." lies between
SplitExtIndex(p) ==
    LET sep == RFind(p, "/")
        dot == RFind(p, ".")
    IN  IF dot > sep /\ \E k \in (sep + 1)..(dot - 1) : p[k] # "." THEN dot ELSE 0

\* os.path.splitext(p)[0]
splitext_base(p) == IF SplitExtIndex(p) = 0 THEN p ELSE SubSeq(p, 1, SplitExtIndex(p) - 1)

\* os.path.splitext(p)[1]
splitext_ext(p) == IF SplitExtIndex(p) = 0 THEN <<>> ELSE SubSeq(p, SplitExtIndex(p), Len(p))

\* the text [^"]+ matches from position start of s (empty: no match)
QuoteFreeRun(s, start) ==
    LET tail == SubSeq(s, start, Len(s))
    IN  SplitHead(tail, "\"")

\* the match of filename="?([^"]+)"? that begins at position i of s (empty: none)
FilenameMatchAt(s, i) ==
    LET j == i + Len(<<"f","i","l","e","n","a","m","e","=">>)
    IN  IF ~(s[i] = "f" /\ j - 1 <= Len(s) /\ SubSeq(s, i, j - 1) = <<"f","i","l","e","n","a","m","e","=">>) THEN <<>>
        ELSE IF j <= Len(s) /\ s[j] = "\"" THEN QuoteFreeRun(s, j + 1)
        ELSE QuoteFreeRun(s, j)

\* re.findall('filename="?([^"]+)"?', content_disposition)[0]; empty when
\* findall returns no match
RECURSIVE FindFilenameFrom(_, _)
FindFilenameFrom(cd, i) ==
    IF i > Len(cd) THEN <<>>
    ELSE IF FilenameMatchAt(cd, i) # <<>> THEN FilenameMatchAt(cd, i)
    ELSE FindFilenameFrom(cd, i + 1)

find_filename(cd) == FindFilenameFrom(cd, 1)

\* mimetypes.guess_extension(type) on the types of the model (empty: None)
guess_extension(ct) ==
    IF Lower(ct) = <<"a","p","p","l","i","c","a","t","i","o","n","/","p","d","f">> THEN <<".","p","d","f">>
    ELSE IF Lower(ct) = <<"t","e","x","t","/","p","l","a","i","n">> THEN <<".","t","x","t">>
    ELSE IF Lower(ct) = <<"a","p","p","l","i","c","a","t","i","o","n","/","z","i","p">> THEN <<".","z","i","p">>
    ELSE IF Lower(ct) = <<"a","p","p","l","i","c","a","t","i","o","n","/","o","c","t","e","t","-","s","t","r","e","a","m">> THEN <<".","b","i","n">>
    ELSE <<>>

\* response.headers.get('Content-Type', '').split(';')[0]
declared_type(resp) == SplitHead(resp.content_type, ";")

\* a generated name that numbers the documents from 0
generated_name_from_zero(resp, ndocs) ==
    <<"d","o","c","u","m","e","n","t","_">> \o ToStr(ndocs)
    \o (IF guess_extension(declared_type(resp)) # <<>>
        THEN guess_extension(declared_type(resp))
        ELSE <<".","b","i","n">>)

\* f"document_{len(self.downloaded_docs) + 1}" plus the guessed extension
generated_name(resp, ndocs) ==
    <<"d","o","c","u","m","e","n","t","_">> \o ToStr(ndocs + 1)
    \o (IF guess_extension(declared_type(resp)) # <<>>
        THEN guess_extension(declared_type(resp))
        ELSE <<".","b","i","n">>)

\* download_document: "Try to get filename from Content-Disposition header"
header_filename(filename, resp) ==
    IF resp.content_disposition # <<>> /\ find_filename(resp.content_disposition) # <<>>
    THEN find_filename(resp.content_disposition)
    ELSE filename

\* download_document: "If still no valid filename, generate one"
generated_if_invalid(filename, resp, ndocs) ==
    IF filename = <<>> \/ ~HasDot(filename) THEN generated_name(resp, ndocs) ELSE filename

\* download_document: "if not filename or '.' not in filename:" and its block
checked_filename(filename, resp, ndocs) ==
    IF filename = <<>> \/ ~HasDot(filename)
    THEN generated_if_invalid(header_filename(filename, resp), resp, ndocs)
    ELSE filename

\* download_document: "Get filename from URL" down to "Default extension"
resolve_filename(u, resp, ndocs) == checked_filename(basename(urlparse(u).path), resp, ndocs)

\* \w in a pattern for str: a letter or digit of any script, or "_"
IsWord(c) == IsAlpha(c) \/ IsDigit(c) \/ c = "_" \/ c \in {"é"}

\* characters kept by a pattern that also lets the path separators through
KeptCharOrSeparator(c) == IsWord(c) \/ c \in {"-", ".", " ", "/", "\\"}

\* the characters re.sub(r'[^\w\-_\. ]', '_', ...) keeps
KeptChar(c) == IsWord(c) \/ c \in {"-", ".", " "}

\* a clean-up that only removes the query
clean_filename_query_only(f) == SplitHead(f, "?")

\* filename.split('?')[0], then re.sub(r'[^\w\-_\. ]', '_', filename)
clean_filename(f) ==
    LET noquery == SplitHead(f, "?")
    IN  [i \in 1..Len(noquery) |-> IF KeptChar(noquery[i]) THEN noquery[i] ELSE "_"]

\* the loop body of the collision loop taken once: always the suffix _1
free_path_single_try(existing, base, ext, counter) ==
    path_join(docs_folder, base \o <<"_">> \o ToStr(counter) \o ext)

\* while os.path.exists(file_path): file_path = f"{base}_{counter}{ext}"; counter += 1
RECURSIVE free_path(_, _, _, _)
free_path(existing, base, ext, counter) ==
    LET candidate == path_join(docs_folder, base \o <<"_">> \o ToStr(counter) \o ext)
    IN  IF candidate \in existing
        THEN free_path(existing, base, ext, counter + 1)
        ELSE candidate

\* download_document: "Construct full path" and "Ensure we don't overwrite
\* existing files"
choose_path(existing, filename) ==
    IF path_join(docs_folder, filename) \in existing
    THEN free_path(existing, splitext_base(filename), splitext_ext(filename), 1)
    ELSE path_join(docs_folder, filename)

(***************************************************************************)
(* Page artifacts (new_rag)                                                *)
(***************************************************************************)
\* self.output_folder (the default of __init__)
output_folder == <<"s","c","r","a","p","e","d","_","d","a","t","a">>

\* s.strip("/")
RECURSIVE StripSlashes(_)
StripSlashes(s) ==
    IF s # <<>> /\ s[1] = "/" THEN StripSlashes(Tail(s))
    ELSE IF s # <<>> /\ s[Len(s)] = "/" THEN StripSlashes(SubSeq(s, 1, Len(s) - 1))
    ELSE s

\* get_clean_filename: "homepage" for the empty path, then path.replace('/', '_')
underscored(path) ==
    IF path = <<>> THEN <<"h","o","m","e","p","a","g","e">>
    ELSE [i \in 1..Len(path) |-> IF path[i] = "/" THEN "_" ELSE path[i]]

\* get_clean_filename: re.sub(r'[^\w\-_\.]', '_', path)
word_chars(path) ==
    [i \in 1..Len(path) |->
        IF IsWord(path[i]) \/ path[i] \in {"-", "."} THEN path[i] ELSE "_"]

\* get_clean_filename(url)
get_clean_filename(u) == word_chars(underscored(StripSlashes(urlparse(u).path)))

\* save_structured_content: the path of the page's JSON file
page_file_path(u) == abspath(path_join(output_folder, get_clean_filename(u) \o <<".","j","s","o","n">>))

(***************************************************************************)
(* BeautifulSoup(html_content, 'html.parser'): the parse tree.  A document  *)
(* is the sequence of its top-level nodes; a node is an element with its    *)
(* child nodes or a text node.                                              *)
(***************************************************************************)
\* a text node
Txt(t) ==
    [tag |-> "#text", id |-> "", class |-> {}, name |-> "", content |-> <<>>, text |-> t,
     kids |-> <<>>]

\* an element <tag id=... class=...> with its children
El(tag, id, class, kids) ==
    [tag |-> tag, id |-> id, class |-> class, name |-> "", content |-> <<>>, text |-> <<>>,
     kids |-> kids]

\* <meta name=... content=...>
Meta(name, content) ==
    [tag |-> "meta", id |-> "", class |-> {}, name |-> name, content |-> content,
     text |-> <<>>, kids |-> <<>>]

\* the characters str.strip() removes
Whitespace == {" ", "\n", "\t"}

\* s.lstrip()
RECURSIVE lstrip(_)
lstrip(s) == IF s # <<>> /\ s[1] \in Whitespace THEN lstrip(Tail(s)) ELSE s

\* s.rstrip()
RECURSIVE rstrip(_)
rstrip(s) ==
    IF s # <<>> /\ s[Len(s)] \in Whitespace THEN rstrip(SubSeq(s, 1, Len(s) - 1)) ELSE s

\* s.strip()
strip(s) == rstrip(lstrip(s))

\* the nodes of a forest and all their descendants, in document order
RECURSIVE descendants(_)
descendants(nodes) ==
    IF nodes = <<>> THEN <<>>
    ELSE <<Head(nodes)>> \o descendants(Head(nodes).kids) \o descendants(Tail(nodes))

\* the stripped, non-empty strings of a list of nodes, joined
RECURSIVE joined_strings(_)
joined_strings(nodes) ==
    IF nodes = <<>> THEN <<>>
    ELSE (IF Head(nodes).tag = "#text" THEN strip(Head(nodes).text) ELSE <<>>)
         \o joined_strings(Tail(nodes))

\* element.get_text(strip=True)
get_text(node) == joined_strings(descendants(<<node>>))

\* a CSS selector of the lists of __init__: a tag name, .class or #id
ByTag(n) == [by |-> "tag", name |-> n]

ByClass(n) == [by |-> "class", name |-> n]

ById(n) == [by |-> "id", name |-> n]

\* the element matches the selector
matches(node, sel) ==
    /\ node.tag # "#text"
    /\ IF sel.by = "tag" THEN node.tag = sel.name
       ELSE IF sel.by = "class" THEN sel.name \in node.class
       ELSE node.id = sel.name

\* soup.select(selector): the matching elements in document order
select(nodes, sel) == SelectSeq(descendants(nodes), LAMBDA n : matches(n, sel))

\* element.find_all(tags): the descendants of the element with one of the tags
find_all(node, tags) == SelectSeq(descendants(node.kids), LAMBDA n : n.tag \in tags)

\* element.decompose() on every element of the forest that matches sel
RECURSIVE decompose(_, _)
decompose(nodes, sel) ==
    IF nodes = <<>> THEN <<>>
    ELSE IF matches(Head(nodes), sel) THEN decompose(Tail(nodes), sel)
    ELSE <<[Head(nodes) EXCEPT !.kids = decompose(@, sel)]>> \o decompose(Tail(nodes), sel)

\* remove_elements(soup, selectors)
RECURSIVE remove_elements(_, _)
remove_elements(nodes, selectors) ==
    IF selectors = <<>> THEN nodes
    ELSE remove_elements(decompose(nodes, Head(selectors)), Tail(selectors))

\* self.nav_selectors
nav_selectors ==
    << ByTag("nav"), ByTag("header"), ByClass("nav"), ByClass("navbar"), ByClass("navigation"),
       ById("nav"), ById("navbar"), ByClass("menu"), ById("menu"), ByClass("header"),
       ById("header"), ByClass("site-header"), ById("site-header"),
       ByClass("main-navigation"), ById("main-navigation"), ByClass("primary-menu"),
       ById("primary-menu") >>

\* self.footer_selectors
footer_selectors ==
    << ByTag("footer"), ByClass("footer"), ById("footer"), ByClass("site-footer"),
       ById("site-footer"), ByClass("bottom"), ById("bottom"), ByClass("site-info"),
       ById("site-info"), ByClass("copyright"), ById("copyright"), ByClass("widget-area"),
       ById("widget-area"), ByClass("sidebar"), ById("sidebar") >>

\* the tags extract_structured_content removes first
non_content_tags ==
    << ByTag("script"), ByTag("style"), ByTag("meta"), ByTag("noscript"), ByTag("svg"),
       ByTag("iframe") >>

\* content_selectors of extract_structured_content
content_selectors ==
    << ByTag("article"), ByClass("post"), ById("post"), ByClass("post-content"),
       ById("post-content"), ByClass("entry-content"), ById("entry-content"),
       ByClass("content"), ById("content"), ByClass("page-content"), ById("page-content"),
       ByTag("main"), ByClass("main"), ById("main") >>

(***************************************************************************)
(* extract_structured_content                                              *)
(***************************************************************************)
\* the first element of a list, as a list of at most one element (None: empty)
first(elements) == IF elements = <<>> THEN <<>> ELSE <<elements[1]>>

\* tag.string: the string of a text node, of an element whose only child has
\* a string; None otherwise
RECURSIVE tag_string(_)
tag_string(node) ==
    IF node.tag = "#text" THEN [none |-> FALSE, text |-> node.text]
    ELSE IF Len(node.kids) = 1 THEN tag_string(node.kids[1])
    ELSE [none |-> TRUE, text |-> <<>>]

\* title = soup.title.string.strip() if soup.title else "No Title", title_tag
\* being soup.title; strip() on the string None raises AttributeError
title_of(title_tag) ==
    IF title_tag = <<>> THEN [raised |-> FALSE, title |-> <<"N","o"," ","T","i","t","l","e">>]
    ELSE IF tag_string(title_tag[1]).none THEN [raised |-> TRUE, title |-> <<>>]
    ELSE [raised |-> FALSE, title |-> strip(tag_string(title_tag[1]).text)]

\* "Store original title"
page_title(nodes) == title_of(first(select(nodes, ByTag("title"))))

\* meta_tag['content'].strip(), meta_tag being the result of soup.find
meta_content(meta_tag) == IF meta_tag = <<>> THEN <<>> ELSE strip(meta_tag[1].content)

\* "Extract meta description if available"
meta_description(nodes) ==
    meta_content(first(SelectSeq(descendants(nodes),
                                 LAMBDA n : n.tag = "meta" /\ n.name = "description")))

\* the soup after "Remove script, style, and other non-content elements" and
\* the removal of the navigation and footer elements
cleaned(nodes) ==
    remove_elements(remove_elements(remove_elements(nodes, non_content_tags), nav_selectors),
                    footer_selectors)

\* len(x.get_text(strip=True))
text_length(element) == Len(get_text(element))

\* a choice that takes the first of the elements, whatever their lengths
largest_is_first(elements) == elements[1]

\* max(elements, key=lambda x: len(x.get_text(strip=True))): the first of the
\* elements with the greatest length
largest(elements) ==
    elements[CHOOSE i \in 1..Len(elements) :
                \A j \in 1..Len(elements) :
                    /\ j < i => text_length(elements[j]) < text_length(elements[i])
                    /\ j > i => text_length(elements[j]) <= text_length(elements[i])]

\* max over the elements, None when there is none
largest_or_none(elements) == IF elements = <<>> THEN <<>> ELSE <<largest(elements)>>

\* the loop over content_selectors: the largest match of the first selector
\* that matches
RECURSIVE container(_, _)
container(nodes, selectors) ==
    IF selectors = <<>> THEN <<>>
    ELSE IF select(nodes, Head(selectors)) # <<>>
         THEN largest_or_none(select(nodes, Head(selectors)))
    ELSE container(nodes, Tail(selectors))

\* if not main_content: main_content = fallback
or_else(main_content, fallback) == IF main_content # <<>> THEN main_content ELSE fallback

\* "Extract main content area": a content container, else the largest div,
\* else the body
main_content(nodes) ==
    or_else(or_else(container(nodes, content_selectors),
                    largest_or_none(select(nodes, ByTag("div")))),
            first(select(nodes, ByTag("body"))))

\* f'h{level}'
HeadingTags == << "h1", "h2", "h3", "h4", "h5", "h6" >>

\* the headings appended for the elements of one level
RECURSIVE heading_records(_, _)
heading_records(elements, level) ==
    IF elements = <<>> THEN <<>>
    ELSE (IF get_text(Head(elements)) # <<>>
          THEN << [level |-> level, text |-> get_text(Head(elements))] >>
          ELSE <<>>)
         \o heading_records(Tail(elements), level)

\* for level in range(1, 7): for heading in main_content.find_all(f'h{level}')
RECURSIVE headings_from(_, _)
headings_from(element, level) ==
    IF level > 6 THEN <<>>
    ELSE heading_records(find_all(element, {HeadingTags[level]}), level)
         \o headings_from(element, level + 1)

\* structured_content["headings"]
headings(main) == IF main = <<>> THEN <<>> ELSE headings_from(main[1], 1)

\* the content blocks appended for the elements: text longer than 10 characters
RECURSIVE block_records(_)
block_records(elements) ==
    IF elements = <<>> THEN <<>>
    ELSE (IF Len(get_text(Head(elements))) > 10
          THEN << [type |-> Head(elements).tag, text |-> get_text(Head(elements))] >>
          ELSE <<>>)
         \o block_records(Tail(elements))

\* structured_content["content_blocks"]
content_blocks(main) ==
    IF main = <<>> THEN <<>>
    ELSE block_records(find_all(main[1], {"p", "li", "blockquote", "pre"}))

\* "\n\n"
BlankLine == << "\n", "\n" >>

\* "#" * heading["level"] + " " + heading["text"] + "\n\n", for every heading
RECURSIVE heading_lines(_)
heading_lines(hs) ==
    IF hs = <<>> THEN <<>>
    ELSE [i \in 1..Head(hs).level |-> "#"] \o << " " >> \o Head(hs).text \o BlankLine
         \o heading_lines(Tail(hs))

\* block["text"] + "\n\n", for every content block
RECURSIVE block_lines(_)
block_lines(bs) ==
    IF bs = <<>> THEN <<>> ELSE Head(bs).text \o BlankLine \o block_lines(Tail(bs))

\* "Generate plain text version for RAG context"
plain_text(title, meta_desc, hs, bs) ==
    strip(title \o BlankLine
          \o (IF meta_desc # <<>> THEN meta_desc \o BlankLine ELSE <<>>)
          \o heading_lines(hs) \o block_lines(bs))

\* the structured_content object, main being the main content area
structured_content(u, title, meta_desc, main) ==
    [called |-> TRUE, raised |-> FALSE, url |-> u, title |-> title,
     meta_description |-> meta_desc, headings |-> headings(main),
     content_blocks |-> content_blocks(main)]

\* structured_content["plain_text"] = plain_text.strip()
with_plain_text(page) ==
    page @@ [plain_text |-> plain_text(page.title, page.meta_description, page.headings,
                                       page.content_blocks)]

\* extract_structured_content(url, html_content), nodes being the parse of
\* html_content; raised: the call raises AttributeError
extract_structured_content(u, nodes) ==
    IF page_title(nodes).raised THEN [called |-> TRUE, raised |-> TRUE, url |-> u]
    ELSE with_plain_text(structured_content(u, page_title(nodes).title,
                                            meta_description(nodes),
                                            main_content(cleaned(nodes))))

(***************************************************************************)
(* The environment: the crawled site and the servers' responses            *)
(***************************************************************************)
Home == <<"h","t","t","p","s",":","/","/","e","x","a","m","p","l","e",".","c","o","m","/">>

HomeNoSlash == <<"h","t","t","p","s",":","/","/","e","x","a","m","p","l","e",".","c","o","m">>

About == <<"h","t","t","p","s",":","/","/","e","x","a","m","p","l","e",".","c","o","m","/","a","b","o","u","t">>

PageA == <<"h","t","t","p","s",":","/","/","e","x","a","m","p","l","e",".","c","o","m","/","a">>

PageASlash == <<"h","t","t","p","s",":","/","/","e","x","a","m","p","l","e",".","c","o","m","/","a","/">>

Articles == <<"h","t","t","p","s",":","/","/","e","x","a","m","p","l","e",".","c","o","m","/","a","r","t","i","c","l","e","s">>

Divs == <<"h","t","t","p","s",":","/","/","e","x","a","m","p","l","e",".","c","o","m","/","d","i","v","s">>

\* the href attributes of the <a href> elements of the page the site serves at
\* u, in document order
PageLinks(s, u) ==
    IF s = "scenario" THEN
        IF u = Home THEN << <<"/","a","b","o","u","t">>, <<"h","t","t","p","s",":","/","/","o","t","h","e","r",".","c","o","m","/","x">> >>
        ELSE IF u = HomeNoSlash THEN << <<"/","a","b","o","u","t">> >>
        ELSE IF u = About THEN << <<"/">>, <<"#","t","o","p">>, <<"/","a","b","o","u","t","/">> >>
        ELSE << >>
    ELSE IF s = "slashes" THEN
        IF u \in {Home, HomeNoSlash} THEN << <<"/","a","/">>, <<"/","a">>, <<"/","a","/","#","f","r","a","g">>, <<"/">> >>
        ELSE IF u = PageA THEN << <<"b">>, <<"j","a","v","a","s","c","r","i","p","t",":","v","o","i","d","(","0",")">>, <<"/","a","/","/">> >>
        ELSE IF u = PageASlash THEN << <<"b">> >>
        ELSE << >>
    ELSE IF s = "schemes" THEN
        IF u \in {Home, HomeNoSlash}
        THEN << <<"m","a","i","l","t","o",":","i","n","f","o","@","e","x","a","m","p","l","e",".","c","o","m">>, <<"/","/","o","t","h","e","r",".","c","o","m","/","y">>, <<"/","w","p","-","a","d","m","i","n","/">>, <<"/","w","p","-","j","s","o","n","/","v","2">>,
                <<"/","p","a","g","e","?","f","r","o","m","=","f","e","e","d">>,
                <<"/","s","t","y","l","e",".","c","s","s","?","v","e","r","=","1">>, <<>> >>
        ELSE << >>
    ELSE IF s = "assets" THEN
        IF u \in {Home, HomeNoSlash}
        THEN << <<"/","s","t","y","l","e",".","c","s","s">>, <<"/","l","o","g","o",".","p","n","g">>, <<"/","A","p","p",".","J","S">>, <<"/","d","o","c","s","/","r","e","p","o","r","t",".","p","d","f">>, <<"/","f","i","l","e","?","d","l","=","r","e","p","o","r","t",".","p","d","f">> >>
        ELSE << >>
    ELSE IF s = "slugs" THEN
        IF u \in {Home, HomeNoSlash} THEN << <<"/","a","/","b">>, <<"/","a","_","b">> >> ELSE << >>
    ELSE IF s = "layouts" THEN
        IF u \in {Home, HomeNoSlash} THEN << <<"/","a","r","t","i","c","l","e","s">>, <<"/","d","i","v","s">> >> ELSE << >>
    ELSE
        IF u \in {Home, HomeNoSlash} THEN << <<"/","p","o","s","t">>, <<"/","m","e","n","u">>, <<"/","u","n","t","i","t","l","e","d">> >> ELSE << >>

\* <html><head>head</head><body>body</body></html>
Html(head, body) == << El("html", "", {}, << El("head", "", {}, head), El("body", "", {}, body) >>) >>

\* a page with a title, a menu, a content div and a footer
SimpleHtml ==
    Html(<< El("title", "", {}, << Txt(<<"H","o","m","e">>) >>) >>,
         << El("nav", "", {}, << El("a", "", {}, << Txt(<<"S","t","a","r","t">>) >>) >>),
            El("div", "content", {}, << El("p", "", {}, << Txt(<<"W","e","l","c","o","m","e"," ","t","o"," ","t","h","e"," ","s","i","t","e",".">>) >>) >>),
            El("footer", "", {}, << Txt(<<"I","m","p","r","i","n","t">>) >>) >>)

\* a post: a described page with a menu of list items, and an article whose
\* h2 precedes its h1
PostHtml ==
    Html(<< El("title", "", {}, << Txt(<<" ","P","o","s","t"," ">>) >>), Meta("description", <<"A","b","o","u","t"," ","p","o","s","t","s">>) >>,
         << El("nav", "", {"menu"}, << El("li", "", {}, << Txt(<<"N","a","v","i","g","a","t","i","o","n"," ","e","n","t","r","y">>) >>) >>),
            El("article", "", {},
               << El("h2", "", {}, << Txt(<<"S","e","c","o","n","d">>) >>),
                  El("h1", "", {}, << Txt(<<"F","i","r","s","t">>) >>),
                  El("p", "", {}, << Txt(<<"A"," ","p","a","r","a","g","r","a","p","h"," ","o","f"," ","t","e","x","t",".">>) >>),
                  El("p", "", {}, << Txt(<<"S","h","o","r","t">>) >>) >>) >>)

\* a page with a long div of class content, a short article and a longer one
ArticlesHtml ==
    Html(<< El("title", "", {}, << Txt(<<"A","r","t","i","c","l","e","s">>) >>) >>,
         << El("div", "", {"content"},
               << El("p", "", {}, << Txt(<<"T","h","e"," ","l","o","n","g","e","s","t"," ","t","e","x","t"," ","o","f"," ","t","h","i","s"," ","p","a","g","e",","," ","i","n"," ","a"," ","d","i","v",".">>) >>) >>),
            El("article", "", {}, << El("p", "", {}, << Txt(<<"A"," ","s","h","o","r","t"," ","a","r","t","i","c","l","e",".">>) >>) >>),
            El("article", "", {}, << El("p", "", {}, << Txt(<<"A"," ","l","o","n","g","e","r"," ","a","r","t","i","c","l","e"," ","t","h","a","n"," ","t","h","e"," ","f","i","r","s","t",".">>) >>) >>) >>)

\* a page without a content container: a short div, then a div that holds
\* another div
DivsHtml ==
    Html(<< El("title", "", {}, << Txt(<<"D","i","v","s">>) >>) >>,
         << El("div", "", {}, << El("p", "", {}, << Txt(<<"A"," ","s","h","o","r","t"," ","d","i","v","i","s","i","o","n",".">>) >>) >>),
            El("div", "", {},
               << El("h1", "", {}, << Txt(<<"O","u","t","e","r">>) >>),
                  El("div", "", {}, << El("p", "", {}, << Txt(<<"T","h","e"," ","i","n","n","e","r"," ","d","i","v","i","s","i","o","n"," ","t","e","x","t",".">>) >>) >>) >>) >>)

\* the parse of the HTML the site serves at u
PageHtml(s, u) ==
    IF s = "layouts" /\ u = Articles THEN ArticlesHtml
    ELSE IF s = "layouts" /\ u = Divs THEN DivsHtml
    ELSE IF s # "content" THEN SimpleHtml
    ELSE IF u = <<"h","t","t","p","s",":","/","/","e","x","a","m","p","l","e",".","c","o","m","/","p","o","s","t">> THEN PostHtml
    ELSE IF u = <<"h","t","t","p","s",":","/","/","e","x","a","m","p","l","e",".","c","o","m","/","m","e","n","u">> THEN
        Html(<< >>,
             << El("nav", "", {},
                   << El("svg", "", {}, << El("title", "", {}, << Txt(<<"M","e","n","u"," ","l","i","n","k","s">>) >>) >>),
                      El("li", "", {}, << Txt(<<"M","e","n","u"," ","e","n","t","r","y"," ","o","n","e">>) >>) >>),
                El("main", "", {}, << El("p", "", {}, << Txt(<<"B","o","d","y"," ","t","e","x","t"," ","o","f"," ","p","a","g","e",".">>) >>) >>) >>)
    ELSE IF u = <<"h","t","t","p","s",":","/","/","e","x","a","m","p","l","e",".","c","o","m","/","u","n","t","i","t","l","e","d">> THEN
        Html(<< El("title", "", {}, << >>) >>,
             << El("p", "", {}, << Txt(<<"S","o","m","e"," ","t","e","x","t"," ","h","e","r","e",".">>) >>) >>)
    ELSE SimpleHtml

\* html_content None
NoContent == [present |-> FALSE, links |-> << >>, html |-> << >>]

\* the HTML of the page the server sends for u with the given status
served(s, u, status) ==
    [present |-> TRUE,
     links |-> IF status = 200 THEN PageLinks(s, u) ELSE << >>,
     html |-> IF status = 200 THEN PageHtml(s, u)
              ELSE Html(<< El("title", "", {}, << Txt(<<"N","o","t"," ","F","o","u","n","d">>) >>) >>,
                        << El("h1", "", {}, << Txt(<<"N","o","t"," ","F","o","u","n","d">>) >>) >>)]

\* the responses a document server gives: status, Content-Disposition and
\* Content-Type headers (empty: absent), body length, and the I/O failure met
\* ("get_error": the request or the reading of the body raises, "write_error":
\* writing the opened file raises)
Responses ==
    { [status |-> 200, content_disposition |-> <<"a","t","t","a","c","h","m","e","n","t",";"," ","f","i","l","e","n","a","m","e","=","\"","r","e","p","o","r","t",".","p","d","f","\"">>,
       content_type |-> <<"a","p","p","l","i","c","a","t","i","o","n","/","p","d","f">>, size |-> 4, io |-> "ok"],
      [status |-> 200, content_disposition |-> <<>>,
       content_type |-> <<"a","p","p","l","i","c","a","t","i","o","n","/","p","d","f",";"," ","c","h","a","r","s","e","t","=","b","i","n","a","r","y">>, size |-> 4, io |-> "ok"],
      [status |-> 200, content_disposition |-> <<>>,
       content_type |-> <<"a","p","p","l","i","c","a","t","i","o","n","/","x","-","u","n","k","n","o","w","n">>, size |-> 4, io |-> "ok"],
      [status |-> 200, content_disposition |-> <<"a","t","t","a","c","h","m","e","n","t",";"," ","f","i","l","e","n","a","m","e","=","\"","r","e","p","o","r","t","\"">>,
       content_type |-> <<"a","p","p","l","i","c","a","t","i","o","n","/","p","d","f">>, size |-> 4, io |-> "ok"],
      [status |-> 404, content_disposition |-> <<>>,
       content_type |-> <<"t","e","x","t","/","h","t","m","l">>, size |-> 0, io |-> "ok"],
      [status |-> 200, content_disposition |-> <<>>,
       content_type |-> <<"a","p","p","l","i","c","a","t","i","o","n","/","p","d","f">>, size |-> 4, io |-> "get_error"],
      [status |-> 200, content_disposition |-> <<"a","t","t","a","c","h","m","e","n","t",";"," ","f","i","l","e","n","a","m","e","=","\"","r","e","p","o","r","t",".","p","d","f","\"">>,
       content_type |-> <<"a","p","p","l","i","c","a","t","i","o","n","/","p","d","f">>, size |-> 4, io |-> "write_error"],
      [status |-> 200, content_disposition |-> <<"a","t","t","a","c","h","m","e","n","t",";"," ","f","i","l","e","n","a","m","e","=","\"",".",".","/","r","é","s","u","m","é",".","p","d","f","?","v","=","2","\"">>,
       content_type |-> <<"a","p","p","l","i","c","a","t","i","o","n","/","p","d","f">>, size |-> 4, io |-> "ok"],
      [status |-> 200, content_disposition |-> <<"a","t","t","a","c","h","m","e","n","t",";"," ","f","i","l","e","n","a","m","e","=","\"",".",".","\\","u","p",".","p","d","f","\"">>,
       content_type |-> <<"a","p","p","l","i","c","a","t","i","o","n","/","p","d","f">>, size |-> 4, io |-> "ok"] }

\* the URLs download_document is called with directly
DownloadUrls ==
    {<<"h","t","t","p","s",":","/","/","e","x","a","m","p","l","e",".","c","o","m","/","f","i","l","e">>, <<"h","t","t","p","s",":","/","/","e","x","a","m","p","l","e",".","c","o","m","/","d","o","c","s","/","r","e","p","o","r","t",".","p","d","f">>}

\* the number of files the documents folder may hold
MaxFiles == 3

(***************************************************************************)
(* State                                                                   *)
(***************************************************************************)
VARIABLES
    variant,          \* which scraper runs
    site,             \* the site that is crawled
    start_url,        \* self.start_url
    visited_urls,     \* self.visited_urls
    found_urls,       \* self.found_urls
    downloaded_docs,  \* self.downloaded_docs
    content_index,    \* self.content_index (rag, new_rag): pages and documents
    output_file,      \* the URLs of the sections appended to self.output_file (web, playwright)
    files,            \* the paths that exist on disk under docs_folder and output_folder
    manifest,         \* what the end of the run wrote: index.json, or the URL and document indexes
    pc,               \* the position of scrape()
    url,              \* the local url of scrape()
    html_content,     \* the local html_content of scrape()
    resources,        \* the browser of async_playwright() and the aiohttp.ClientSession
    fetches,          \* history: how often each URL was rendered or downloaded
    discovered,       \* history: the URLs extract_urls passed to found_urls.add
    step,             \* history: pending before the pop of the current URL
    trail,            \* history: the positions scrape() went through since the last pop
    last_dl,          \* history: the inputs and results of the last download_document call
    last_render,      \* history: what the last get_page_content call did and met
    last_page,        \* history: the result of the last extract_structured_content call
    failure,          \* the exception that left scrape(), and what main() made of it
    event,            \* lambda_handler: the event of the invocation and what SNS does
    response          \* lambda_handler: what the last invocation returned and did

vars == <<variant, site, start_url, visited_urls, found_urls, downloaded_docs, content_index,
          output_file, files, manifest, pc, url, html_content, resources, fetches, discovered,
          step, trail, last_dl, last_render, last_page, failure, event, response>>

\* the variables of lambda_handler
lambda_vars == <<event, response>>

\* self.base_url = f"{parsed_url.scheme}://{parsed_url.netloc}"
base_url == urlparse(start_url).scheme \o <<":","/","/">> \o urlparse(start_url).netloc

NoDownload ==
    [called |-> FALSE, url |-> <<>>, resp |-> [status |-> 0], pre_files |-> {}, pre_ndocs |-> 0,
     filename |-> <<>>, title |-> <<>>, file_path |-> <<>>, created |-> FALSE, ok |-> FALSE]

\* lambda_handler has not returned
NoResponse ==
    [returned |-> FALSE, raised |-> FALSE, error |-> "none", type |-> "none",
     slotToElicit |-> "none", state |-> "none", publishes |-> 0]

\* no exception
NoException == [type |-> "none", at |-> "none"]

\* __init__
InitObject ==
    /\ variant \in {"web", "playwright", "rag", "new_rag"}
    /\ site \in {"scenario", "slashes", "schemes", "assets", "slugs", "content", "layouts"}
    /\ start_url \in {Home, HomeNoSlash}
    /\ visited_urls = {}
    /\ found_urls = {start_url}
    /\ downloaded_docs = << >>
    /\ content_index = [pages |-> << >>, documents |-> << >>]
    /\ output_file = << >>
    /\ files \in { {}, {path_join(docs_folder, <<"r","e","p","o","r","t",".","p","d","f">>)} }
    /\ manifest = [written |-> FALSE]
    /\ url = <<>>
    /\ html_content = NoContent
    /\ resources = [browser |-> "none", session |-> "none", launches |-> 0, sessions |-> 0]
    /\ fetches = << >>
    /\ discovered = {}
    /\ step = [pre_found |-> {}]
    /\ trail = << >>
    /\ last_dl = NoDownload
    /\ last_render = [called |-> FALSE, url |-> <<>>, navs |-> <<>>, idle |-> "not_awaited",
                      status |-> 0, present |-> FALSE]
    /\ last_page = [called |-> FALSE, raised |-> FALSE]
    /\ failure = [raised |-> NoException, flush |-> "none", propagated |-> NoException]
    /\ event = [intent_name |-> "", invocation_source |-> "", slots |-> "dict", userEmail |-> "absent", UserQuestion |-> "absent", client |-> "ok", sns |-> "ok"]
    /\ response = NoResponse

\* scrape() is about to be called
Init == InitObject /\ pc = "start"

\* one more render or download of u
CountFetch(u) ==
    IF u \in DOMAIN fetches THEN [fetches EXCEPT ![u] = @ + 1] ELSE (u :> 1) @@ fetches

(***************************************************************************)
(* scrape(): the scopes of the browser and of the client session           *)
(***************************************************************************)
\* the scrapers that drive a browser and a client session (WebsiteScraper
\* calls requests.get and holds neither)
uses_browser(v) == v # "web"

\* browser = await p.chromium.launch(...)
launch_browser(r) == [r EXCEPT !.browser = "open", !.launches = @ + 1]

\* async with aiohttp.ClientSession(...) as session: entry
open_session(r) == [r EXCEPT !.session = "open", !.sessions = @ + 1]

\* async with aiohttp.ClientSession(...) as session: exit
close_session(r) == [r EXCEPT !.session = IF @ = "open" THEN "closed" ELSE @]

\* await browser.close()
close_browser(r) == [r EXCEPT !.browser = IF @ = "open" THEN "closed" ELSE @]

\* an exit of the playwright scope that leaves the browser as it is
stop_playwright_keeps_browser(r) == r

\* async with async_playwright() as p: exit, which stops the driver and with
\* it every browser the driver launched
stop_playwright(r) == [r EXCEPT !.browser = IF @ = "open" THEN "closed" ELSE @]

\* the scopes scrape() leaves when an exception passes through them
unwind(v, r) == IF uses_browser(v) THEN stop_playwright(close_session(r)) ELSE r

\* scrape() up to the loop: launch the browser, open the page, create the session
Start ==
    /\ pc = "start"
    /\ resources' = IF uses_browser(variant)
                    THEN open_session(launch_browser(resources))
                    ELSE resources
    /\ pc' = "loop"
    /\ UNCHANGED <<variant, site, start_url, visited_urls, found_urls, downloaded_docs,
                   content_index, output_file, files, manifest, url, html_content, fetches,
                   discovered, step, trail, last_dl, last_render, last_page,
                   failure>>
    /\ UNCHANGED lambda_vars

(***************************************************************************)
(* scrape(): the crawl loop                                                *)
(***************************************************************************)
\* url = self.found_urls.pop(); if url in self.visited_urls: continue
Pop ==
    /\ pc = "loop"
    /\ found_urls # {}
    /\ \E u \in found_urls :
        /\ url' = u
        /\ found_urls' = found_urls \ {u}
        /\ pc' = IF u \in visited_urls THEN "loop" ELSE "mark"
    /\ step' = [pre_found |-> found_urls]
    /\ trail' = << "pop" >>
    /\ UNCHANGED <<variant, site, start_url, visited_urls, downloaded_docs, content_index,
                   output_file, files, manifest, html_content, resources, fetches, discovered,
                   last_dl, last_render, last_page,
                   failure>>
    /\ UNCHANGED lambda_vars

\* a marking that forgets the URLs visited before
MarkForgetting ==
    /\ pc = "mark"
    /\ visited_urls' = {url}
    /\ pc' = IF is_document(url) THEN "download" ELSE "render"
    /\ trail' = Append(trail, "mark")
    /\ UNCHANGED <<variant, site, start_url, found_urls, downloaded_docs, content_index,
                   output_file, files, manifest, url, html_content, resources, fetches,
                   discovered, step, last_dl, last_render, last_page,
                   failure>>
    /\ UNCHANGED lambda_vars

\* a marking that records nothing
MarkNothing ==
    /\ pc = "mark"
    /\ visited_urls' = visited_urls
    /\ pc' = IF is_document(url) THEN "download" ELSE "render"
    /\ trail' = Append(trail, "mark")
    /\ UNCHANGED <<variant, site, start_url, found_urls, downloaded_docs, content_index,
                   output_file, files, manifest, url, html_content, resources, fetches,
                   discovered, step, last_dl, last_render, last_page,
                   failure>>
    /\ UNCHANGED lambda_vars

\* self.visited_urls.add(url); if self.is_document(url): ... else: ...
Mark ==
    /\ pc = "mark"
    /\ visited_urls' = visited_urls \cup {url}
    /\ pc' = IF is_document(url) THEN "download" ELSE "render"
    /\ trail' = Append(trail, "mark")
    /\ UNCHANGED <<variant, site, start_url, found_urls, downloaded_docs, content_index,
                   output_file, files, manifest, url, html_content, resources, fetches,
                   discovered, step, last_dl, last_render, last_page,
                   failure>>
    /\ UNCHANGED lambda_vars

\* a status test that lets every answer pass
status_ok_always(v, status) == TRUE

\* the status test of download_document: raise_for_status() in WebsiteScraper,
\* response.status != 200 in the WordPress scrapers
status_ok(v, status) == IF v = "web" THEN status < 400 ELSE status = 200

\* the record download_document appends to downloaded_docs: the pair
\* (url, file_path) in WebsiteScraper and the playwright scraper, doc_info in new_rag
doc_record(v, u, resp, title, file_path) ==
    IF writes_json(v)
    THEN [url |-> u, file_path |-> abspath(file_path), title |-> title,
          content_type |-> declared_type(resp), size_bytes |-> resp.size]
    ELSE [url |-> u, file_path |-> file_path]

\* download_document, from "Get filename from URL" on: the response was
\* received with an accepted status
write_document(u, resp, filename, title, file_path) ==
    /\ files' = files \cup {file_path}
    /\ downloaded_docs' =
          IF resp.io = "ok"
          THEN Append(downloaded_docs, doc_record(variant, u, resp, title, file_path))
          ELSE downloaded_docs
    /\ content_index' =
          IF resp.io = "ok" /\ writes_json(variant)
          THEN [content_index EXCEPT
                   !.documents = Append(@, doc_record(variant, u, resp, title, file_path))]
          ELSE content_index
    /\ last_dl' = [called |-> TRUE, url |-> u, resp |-> resp, pre_files |-> files,
                   pre_ndocs |-> Len(downloaded_docs), filename |-> filename, title |-> title,
                   file_path |-> file_path, created |-> TRUE, ok |-> resp.io = "ok"]

\* download_document(url) when the server answers resp
download_document(u, resp) ==
    IF resp.io # "get_error" /\ status_ok(variant, resp.status)
    THEN \E filename \in {resolve_filename(u, resp, Len(downloaded_docs))} :
         \E title \in {clean_filename(filename)} :
         \E file_path \in {choose_path(files, title)} :
            write_document(u, resp, filename, title, file_path)
    ELSE /\ last_dl' = [NoDownload EXCEPT !.called = TRUE, !.url = u, !.resp = resp,
                                          !.pre_files = files,
                                          !.pre_ndocs = Len(downloaded_docs)]
         /\ UNCHANGED <<files, downloaded_docs, content_index>>

\* the position after the if/else of the loop body, with no delay before the
\* next pop
after_processing_no_delay == "loop"

\* the position after the if/else of the loop body: "Be nice to the server"
after_processing == "sleep"

\* an exception leaves scrape() through the scopes of the session and the browser
raises(exception) ==
    /\ pc' = "failed"
    /\ resources' = unwind(variant, resources)
    /\ failure' = [failure EXCEPT !.raised = exception]

\* the loop body goes on to position next
goes_on(next) ==
    /\ pc' = next
    /\ UNCHANGED <<resources, failure>>

\* await self.download_document(session, url); WebsiteScraper and the
\* playwright scraper then save_content(url, "Document downloaded to: ...")
Download ==
    /\ pc = "download"
    /\ \E resp \in Responses : download_document(url, resp)
    /\ output_file' = IF ~writes_json(variant) /\ last_dl'.ok
                      THEN Append(output_file, url) ELSE output_file
    /\ fetches' = CountFetch(url)
    /\ goes_on(after_processing)
    /\ trail' = Append(trail, "download")
    /\ UNCHANGED <<variant, site, start_url, visited_urls, found_urls, manifest, url,
                   html_content, discovered, step, last_render, last_page>>
    /\ UNCHANGED lambda_vars

\* get_page_content(url) returns content under the network behaviour e
returns_content(v, e) ==
    IF v = "web" THEN e.nav1 /\ e.status < 400 /\ e.is_html
    ELSE IF v \in {"playwright", "rag"} THEN e.nav1 /\ e.idle
    ELSE e.nav1 \/ e.nav2

\* get_page_content(url) under the network behaviour e
get_page_content(v, s, u, e) ==
    IF returns_content(v, e) THEN served(s, u, e.status) ELSE NoContent

\* the page.goto calls of get_page_content under e, each with its wait
\* condition, its timeout and its outcome
navigations(v, e) ==
    IF v = "web" THEN << >>
    ELSE IF v \in {"playwright", "rag"}
    THEN << [wait_until |-> "networkidle", timeout |-> 30000, ok |-> e.nav1 /\ e.idle] >>
    ELSE << [wait_until |-> "domcontentloaded", timeout |-> 20000, ok |-> e.nav1] >>
         \o (IF e.nav1 THEN << >>
             ELSE << [wait_until |-> "commit", timeout |-> 15000, ok |-> e.nav2] >>)

\* what get_page_content(url) did and met under e: its navigations, whether
\* the network got quiet after the document had loaded, the status of the
\* answer (0: none), and whether it returned content
render_record(v, u, e) ==
    [called |-> TRUE, url |-> u, navs |-> navigations(v, e),
     idle |-> IF v = "web" \/ ~e.nav1 THEN "not_awaited"
              ELSE IF e.idle THEN "reached" ELSE "timeout",
     status |-> IF e.nav1 \/ (v = "new_rag" /\ e.nav2) THEN e.status ELSE 0,
     present |-> returns_content(v, e)]

\* html_content = get_page_content(url); if html_content: ...
Render ==
    /\ pc = "render"
    \* what the network does to the render: nav1: the first request is answered and
    \* the document loads in time; status: the status of the answer; is_html: its
    \* Content-Type holds text/html; idle: the network then gets quiet in time; nav2:
    \* a second navigation is committed in time
    /\ \E e \in [nav1 : BOOLEAN, status : {200, 404}, is_html : BOOLEAN, idle : BOOLEAN,
                  nav2 : BOOLEAN] :
          /\ html_content' = get_page_content(variant, site, url, e)
          /\ last_render' = render_record(variant, url, e)
    /\ fetches' = CountFetch(url)
    /\ goes_on(IF html_content'.present THEN "extract" ELSE after_processing)
    /\ trail' = Append(trail, "render")
    /\ UNCHANGED <<variant, site, start_url, visited_urls, found_urls, downloaded_docs,
                   content_index, output_file, files, manifest, url, discovered, step, last_dl,
                   last_page>>
    /\ UNCHANGED lambda_vars

\* self.extract_urls(url, html_content)
Extract ==
    /\ pc = "extract"
    /\ \E added \in {added_urls(variant, base_url, url, html_content.links, visited_urls)} :
           /\ found_urls' = found_urls \cup added
           /\ discovered' = discovered \cup added
    /\ goes_on("save")
    /\ trail' = Append(trail, "extract")
    /\ UNCHANGED <<variant, site, start_url, visited_urls, downloaded_docs, content_index,
                   output_file, files, manifest, url, html_content, fetches, step, last_dl,
                   last_render, last_page>>
    /\ UNCHANGED lambda_vars

\* what opening the file a page is saved to does
SaveIo == {"ok", "open_error"}

\* soup.title.string.strip() on a title without a string
AttributeError == [type |-> "AttributeError", at |-> "extract_structured_content"]

\* the error of opening the file of a page
OpenError == [type |-> "OSError", at |-> "save"]

\* a save that appends the page to the index twice
save_structured_content_twice(page, io) ==
    \E file_path \in {page_file_path(page.url)} :
        /\ content_index' =
              [content_index EXCEPT
                 !.pages = @ \o << [url |-> page.url, title |-> page.title,
                                    file_path |-> file_path],
                                   [url |-> page.url, title |-> page.title,
                                    file_path |-> file_path] >>]
        /\ files' = IF io = "ok" THEN files \cup {file_path} ELSE files

\* save_structured_content(structured_content) under the outcome io
save_structured_content(page, io) ==
    \E file_path \in {page_file_path(page.url)} :
        /\ content_index' =
              [content_index EXCEPT
                 !.pages = Append(@, [url |-> page.url, title |-> page.title,
                                      file_path |-> file_path])]
        /\ files' = IF io = "ok" THEN files \cup {file_path} ELSE files

\* rag, new_rag: extract_structured_content, save_structured_content;
\* WebsiteScraper and the playwright scraper: extract_content, save_content
Save ==
    /\ pc = "save"
    /\ \E io \in SaveIo :
          IF writes_json(variant)
          THEN /\ \E page \in {extract_structured_content(url, html_content.html)} :
                    /\ last_page' = page
                    /\ IF page.raised
                       THEN raises(AttributeError) /\ UNCHANGED <<content_index, files>>
                       ELSE /\ save_structured_content(page, io)
                            /\ IF io = "ok" THEN goes_on(after_processing) ELSE raises(OpenError)
               /\ UNCHANGED output_file
          ELSE /\ output_file' = IF io = "ok" THEN Append(output_file, url) ELSE output_file
               /\ IF io = "ok" THEN goes_on(after_processing) ELSE raises(OpenError)
               /\ UNCHANGED <<content_index, files, last_page>>
    /\ trail' = Append(trail, "save")
    /\ UNCHANGED <<variant, site, start_url, visited_urls, found_urls, downloaded_docs, manifest,
                   url, html_content, fetches, discovered, step, last_dl, last_render>>
    /\ UNCHANGED lambda_vars

\* await asyncio.sleep(self.delay)
Sleep ==
    /\ pc = "sleep"
    /\ goes_on("loop")
    /\ trail' = Append(trail, "sleep")
    /\ UNCHANGED <<variant, site, start_url, visited_urls, found_urls, downloaded_docs,
                   content_index, output_file, files, manifest, url, html_content, fetches,
                   discovered, step, last_dl, last_render, last_page>>
    /\ UNCHANGED lambda_vars

\* save_index(): the JSON written to self.index_file
save_index(index) ==
    [written |-> TRUE, pages |-> index.pages, documents |-> index.documents,
     stats |-> [total_pages |-> Len(index.pages), total_documents |-> Len(index.documents)]]

\* the loop ends: save_index() in rag and new_rag, create_url_index() and
\* create_documents_index() in WebsiteScraper and the playwright scraper; then
\* the session scope ends, the browser is closed and the playwright scope ends
Finish ==
    /\ pc = "loop"
    /\ found_urls = {}
    /\ manifest' =
          IF writes_json(variant)
          THEN save_index(content_index)
          ELSE [written |-> TRUE, urls |-> visited_urls, documents |-> downloaded_docs]
    /\ resources' = IF uses_browser(variant)
                    THEN stop_playwright(close_browser(close_session(resources)))
                    ELSE resources
    /\ pc' = "done"
    /\ UNCHANGED <<variant, site, start_url, visited_urls, found_urls, downloaded_docs,
                   content_index, output_file, files, url, html_content, fetches, discovered,
                   step, trail, last_dl, last_render, last_page,
                   failure>>
    /\ UNCHANGED lambda_vars

\* the scraper whose main() catches the exception of scrape()
has_handler(v) == v = "new_rag"

\* a handler that lets its own error take the place of the exception it handles
reraised_or_flush_error(original, flush) ==
    IF flush = "ok" THEN original ELSE [type |-> "OSError", at |-> "save_index"]

\* main(): the bare raise at the end of the handler, after save_index() was
\* tried inside its own try/except
reraised(original, flush) == original

\* main(): the exception of scraper.scrape() arrives; new_rag tries
\* save_index() and raises the exception again, the other scrapers let it pass
Flush ==
    /\ pc = "failed"
    /\ \E io \in SaveIo :
          /\ manifest' = IF has_handler(variant) /\ io = "ok"
                         THEN save_index(content_index) ELSE manifest
          /\ failure' = IF has_handler(variant)
                        THEN [failure EXCEPT !.flush = io,
                                             !.propagated = reraised(failure.raised, io)]
                        ELSE [failure EXCEPT !.propagated = failure.raised]
    /\ pc' = "exited"
    /\ UNCHANGED <<variant, site, start_url, visited_urls, found_urls, downloaded_docs,
                   content_index, output_file, files, url, html_content, resources, fetches,
                   discovered, step, trail, last_dl, last_render, last_page>>
    /\ UNCHANGED lambda_vars

Next ==
    Start \/ Pop \/ Mark \/ Download \/ Render \/ Extract \/ Save \/ Sleep \/ Finish \/ Flush

Spec == Init /\ [][Next]_vars

(***************************************************************************)
(* download_document called directly, on any URL                           *)
(***************************************************************************)
InitDownload == InitObject /\ pc = "call" /\ site = "scenario" /\ start_url = Home

DirectDownload ==
    /\ pc = "call"
    /\ Cardinality(files) < MaxFiles
    /\ \E u \in DownloadUrls, resp \in Responses : download_document(u, resp)
    /\ UNCHANGED <<variant, site, start_url, visited_urls, found_urls, output_file, manifest, pc,
                   url, html_content, resources, fetches, discovered, step, trail, last_render,
                   last_page,
                   failure>>
    /\ UNCHANGED lambda_vars

NextDownload == DirectDownload

SpecDownload == InitDownload /\ [][NextDownload]_vars

(***************************************************************************)
(* lambda_handler, the Lex fulfilment function                             *)
(***************************************************************************)

\* not slots.get(name): the key is absent, or its value is None
missing(e, name) ==
    (IF name = "userEmail" THEN e.userEmail ELSE e.UserQuestion) \in {"absent", "null"}

\* a response of the handler
Reply(type, slot, state, publishes) ==
    [returned |-> TRUE, raised |-> FALSE, error |-> "none", type |-> type,
     slotToElicit |-> slot, state |-> state, publishes |-> publishes]

\* an exception, after that many calls of publish
Raise(error, publishes) ==
    [returned |-> FALSE, raised |-> TRUE, error |-> error, type |-> "none",
     slotToElicit |-> "none", state |-> "none", publishes |-> publishes]

\* the DialogCodeHook branch
dialog_code_hook(e) ==
    IF e.slots = "null" THEN Raise("AttributeError", 0)
    ELSE IF missing(e, "userEmail") THEN Reply("ElicitSlot", "userEmail", "none", 0)
    ELSE IF missing(e, "UserQuestion") THEN Reply("ElicitSlot", "UserQuestion", "none", 0)
    ELSE Reply("Delegate", "none", "none", 0)

\* the FulfillmentCodeHook branch: .get on a slot that is None raises
fulfillment_code_hook(e) ==
    IF e.slots = "null" \/ e.userEmail = "null" \/ e.UserQuestion = "null"
    THEN Raise("AttributeError", 0)
    ELSE IF e.sns = "error" THEN Raise("ClientError", 1)
    ELSE Reply("Close", "none", "Fulfilled", 1)

\* the try block
handler_body(e) ==
    IF e.intent_name = "CaptureEmail" /\ e.invocation_source = "DialogCodeHook"
    THEN dialog_code_hook(e)
    ELSE IF e.intent_name = "CaptureEmail" /\ e.invocation_source = "FulfillmentCodeHook"
    THEN fulfillment_code_hook(e)
    ELSE Reply("Close", "none", "Failed", 0)

\* the handler: the SNS client is made before the try block is entered; what the
\* try block raises is answered by the except clause
lambda_handler(e) ==
    IF e.client = "error" THEN Raise("BotoCoreError", 0)
    ELSE IF handler_body(e).raised
    THEN [Reply("Close", "none", "Failed", handler_body(e).publishes)
             EXCEPT !.error = handler_body(e).error]
    ELSE handler_body(e)

InitLambda ==
    /\ InitObject
    /\ pc = "invoke"
    /\ variant = "web"
    /\ site = "scenario"
    /\ start_url = Home
    /\ files = {}

\* the variables of the scrapers
scraper_vars ==
    <<variant, site, start_url, visited_urls, found_urls, downloaded_docs, content_index,
      output_file, files, manifest, url, html_content, resources, fetches, discovered, step,
      trail, last_dl, last_render, last_page, failure>>

\* Lex invokes the function
Invoke ==
    /\ pc \in {"invoke", "returned"}
    \* the event Lex sends (intent['slots'] is a dict or None; a slot is absent, None
    \* or filled) and what boto3.client and publish do during the call
    /\ event' \in [intent_name : {"CaptureEmail", "OtherIntent"},
                   invocation_source : {"DialogCodeHook", "FulfillmentCodeHook", ""},
                   slots : {"dict", "null"},
                   userEmail : {"absent", "null", "filled"},
                   UserQuestion : {"absent", "null", "filled"},
                   client : {"ok", "error"},
                   sns : {"ok", "error"}]
    /\ response' = NoResponse
    /\ pc' = "handling"
    /\ UNCHANGED scraper_vars

\* one run of lambda_handler
Handle ==
    /\ pc = "handling"
    /\ response' = lambda_handler(event)
    /\ pc' = "returned"
    /\ UNCHANGED <<event>>
    /\ UNCHANGED scraper_vars

NextLambda == Invoke \/ Handle

SpecLambda == InitLambda /\ [][NextLambda]_vars

(***************************************************************************)
(* Properties                                                              *)
(***************************************************************************)
\* the links of the page in hand, resolved against the page and normalized
ResolvedLinks == {normalize(urljoin(url, html_content.links[i])) : i \in 1..Len(html_content.links)}

\* every URL the crawl holds: pending, visited, rendered or downloaded
Frontier == found_urls \cup visited_urls \cup DOMAIN fetches

\* C1: in every reachable state of a crawl run the visited set and the pending
\* set are disjoint, and a URL enters pending only if it is not in visited at
\* the moment of insertion
C1_VisitedPendingDisjoint ==
    /\ [](visited_urls \cap found_urls = {})
    /\ [][\A u \in found_urls' \ found_urls : u \notin visited_urls]_vars

\* discovery met a link to a visited URL and other links, and has acted
C1_Witness ==
    /\ pc = "save"
    /\ ResolvedLinks \cap visited_urls # {}
    /\ ResolvedLinks \cap found_urls # {}

\* C2: across every step of a crawl run the visited set only grows
C2_VisitedOnlyGrows == [][visited_urls \subseteq visited_urls']_vars

\* the run has ended after three URLs were marked visited one after the other
C2_Witness == pc = "done" /\ Cardinality(visited_urls) >= 3

\* C3: a URL that several links resolve to is enqueued at most once: once
\* visited it never enters pending again, and it is rendered or downloaded at
\* most once in a run
C3_EnqueuedAtMostOnce ==
    /\ [](\A u \in DOMAIN fetches : fetches[u] <= 1)
    /\ [][\A u \in visited_urls : u \notin found_urls']_vars

\* three links of the home page and one of another page resolved to the same
\* URL, which was processed, and the run has ended
C3_Witness ==
    /\ pc = "done"
    /\ site = "slashes"
    /\ PageA \in DOMAIN fetches
    /\ PageASlash \in DOMAIN fetches

\* C4 (as claimed): every URL that is ever in pending or visited has the
\* network location of the crawl's base URL
C4_FrontierSameDomain ==
    \A u \in found_urls \cup visited_urls : urlparse(u).netloc = urlparse(base_url).netloc

ImageExts == {<<".","j","p","g">>, <<".","j","p","e","g">>, <<".","p","n","g">>, <<".","g","i","f">>, <<".","s","v","g">>, <<".","i","c","o">>}

\* u ends, whatever the case of its letters, with one of the extensions exts
HasExtension(u, exts) == \E ext \in exts : EndsWith(Lower(u), ext)

\* the ignore-list as claimed: image types in the WordPress-aware scrapers
ClaimedIgnoreList(v) ==
    IF v \in {"playwright", "rag", "new_rag"}
    THEN {<<".","c","s","s">>, <<".","j","s">>} \cup ImageExts
    ELSE {<<".","c","s","s">>, <<".","j","s">>}

\* the ignore-list as amended: image types in WebsiteScraper only
AmendedIgnoreList(v) ==
    IF v = "web" THEN {<<".","c","s","s">>, <<".","j","s">>} \cup ImageExts ELSE {<<".","c","s","s">>, <<".","j","s">>}

\* C5 (as claimed): validation rejects every URL with an extension of the
\* ignore-list, .css and .js in every mode and image types in the
\* WordPress-aware mode, and discovery inserts no such URL into pending
C5_ClaimedIgnoreList ==
    /\ \A u \in ResolvedLinks :
          HasExtension(u, ClaimedIgnoreList(variant)) => ~is_valid_url(variant, base_url, u)
    /\ \A u \in discovered : ~HasExtension(u, ClaimedIgnoreList(variant))

\* C5 (amended): validation rejects every URL that ends with .css or .js in
\* every scraper, and with an image extension in WebsiteScraper only; discovery
\* inserts no URL that ends with an extension its scraper ignores
C5_IgnoreListPerScraper ==
    /\ \A u \in ResolvedLinks :
          HasExtension(u, AmendedIgnoreList(variant)) => ~is_valid_url(variant, base_url, u)
    /\ \A u \in discovered : ~HasExtension(u, AmendedIgnoreList(variant))

\* discovery of WebsiteScraper met a same-site image link and did not insert it
C5_Witness ==
    /\ pc = "save"
    /\ variant = "web"
    /\ \E u \in ResolvedLinks :
          /\ HasExtension(u, ImageExts)
          /\ urlparse(u).netloc = urlparse(base_url).netloc
          /\ u \notin found_urls
    /\ discovered # {}

\* C6 (as claimed): normalization is idempotent on every URL discovery resolves
C6_NormalizeIdempotent ==
    pc = "extract" =>
        \A i \in 1..Len(html_content.links) :
            LET u == urljoin(url, html_content.links[i])
            IN  normalize(normalize(u)) = normalize(u)

\* C7 (as claimed): the crawl never holds or processes both the form with a
\* trailing slash and the form without it of a non-document URL
C7_SlashFormsCollapse ==
    \A u \in Frontier : ~is_document(u) => (u \o <<"/">>) \notin Frontier

\* the URLs C8 as claimed expects discovery to insert
ClaimedInserted ==
    {u \in ResolvedLinks : is_valid_url(variant, base_url, u) /\ u \notin visited_urls}

\* the URLs C8 as amended expects discovery to insert
AmendedInserted ==
    {u \in {normalize(urljoin(url, html_content.links[i])) :
                i \in {k \in 1..Len(html_content.links) :
                          /\ html_content.links[k] # <<>>
                          /\ ~StartsWith(html_content.links[k], <<"j","a","v","a","s","c","r","i","p","t",":">>)}} :
        is_valid_url(variant, base_url, u) /\ u \notin visited_urls}

DownloadedPaths == [i \in 1..Len(downloaded_docs) |-> downloaded_docs[i].file_path]

\* the path download_document gives the k-th file named like name (k = 0: name itself)
NumberedPath(name, k) ==
    IF k = 0 THEN path_join(docs_folder, name)
    ELSE path_join(docs_folder, splitext_base(name) \o <<"_">> \o ToStr(k) \o splitext_ext(name))

\* C9: a download never overwrites an existing file: the path it writes did
\* not exist when it was chosen, the paths of the downloaded documents are
\* pairwise distinct, and the path is the cleaned name itself or the first of
\* name_1, name_2, ... (before the extension) that is free
C9_NeverOverwrites ==
    /\ last_dl.created => last_dl.file_path \notin last_dl.pre_files
    /\ \A i, j \in 1..Len(downloaded_docs) : i # j => DownloadedPaths[i] # DownloadedPaths[j]
    /\ last_dl.created =>
          \E k \in 0..Cardinality(last_dl.pre_files) :
              /\ last_dl.file_path = NumberedPath(last_dl.title, k)
              /\ \A m \in 0..(k - 1) : NumberedPath(last_dl.title, m) \in last_dl.pre_files

\* three downloads of resources named report.pdf into an empty folder gave
\* report.pdf, report_1.pdf and report_2.pdf
C9_Witness ==
    /\ variant = "web"
    /\ DownloadedPaths = << path_join(docs_folder, <<"r","e","p","o","r","t",".","p","d","f">>),
                            path_join(docs_folder, <<"r","e","p","o","r","t","_","1",".","p","d","f">>),
                            path_join(docs_folder, <<"r","e","p","o","r","t","_","2",".","p","d","f">>) >>
    /\ {downloaded_docs[i].url : i \in 1..Len(downloaded_docs)} = DownloadUrls

\* the base name of the path of the URL of the last download
LastUrlName == basename(urlparse(last_dl.url).path)

\* the file name the Content-Disposition header of the last download carries
LastHeaderName == find_filename(last_dl.resp.content_disposition)

\* document_<n> for the last download, n one more than the number of documents
\* downloaded before it, with the extension of the declared type or .bin
LastGeneratedName ==
    LET declared == SplitHead(last_dl.resp.content_type, ";")
    IN  <<"d","o","c","u","m","e","n","t","_">> \o ToStr(last_dl.pre_ndocs + 1)
        \o (IF guess_extension(declared) # <<>> THEN guess_extension(declared) ELSE <<".","b","i","n">>)

\* C10 (as claimed): the file name is the base name of the URL path if it has
\* a dot, else the file name of the Content-Disposition header, else the
\* generated document_<n> with the extension of the declared type
C10_ClaimedPriority ==
    last_dl.created =>
        last_dl.filename =
            IF HasDot(LastUrlName) THEN LastUrlName
            ELSE IF LastHeaderName # <<>> THEN LastHeaderName
            ELSE LastGeneratedName

\* C10 (amended): the file name of the Content-Disposition header is taken
\* only if it has a dot; https://example.com/file with filename="report.pdf"
\* gives report.pdf, and without a name in the URL or the headers
\* application/pdf gives document_<n>.pdf and an unknown type document_<n>.bin
C10_PriorityWithDottedHeaderName ==
    /\ last_dl.created =>
          last_dl.filename =
              IF HasDot(LastUrlName) THEN LastUrlName
              ELSE IF HasDot(LastHeaderName) THEN LastHeaderName
              ELSE LastGeneratedName
    /\ (/\ last_dl.created
        /\ last_dl.url = <<"h","t","t","p","s",":","/","/","e","x","a","m","p","l","e",".","c","o","m","/","f","i","l","e">>
        /\ last_dl.resp.content_disposition = <<"a","t","t","a","c","h","m","e","n","t",";"," ","f","i","l","e","n","a","m","e","=","\"","r","e","p","o","r","t",".","p","d","f","\"">>)
          => last_dl.filename = <<"r","e","p","o","r","t",".","p","d","f">>
    /\ (/\ last_dl.created
        /\ last_dl.url = <<"h","t","t","p","s",":","/","/","e","x","a","m","p","l","e",".","c","o","m","/","f","i","l","e">>
        /\ last_dl.resp.content_disposition = <<>>)
          => last_dl.filename =
                <<"d","o","c","u","m","e","n","t","_">> \o ToStr(last_dl.pre_ndocs + 1)
                \o (IF last_dl.resp.content_type = <<"a","p","p","l","i","c","a","t","i","o","n","/","p","d","f",";"," ","c","h","a","r","s","e","t","=","b","i","n","a","r","y">>
                    THEN <<".","p","d","f">> ELSE <<".","b","i","n">>)

\* after one document, https://example.com/file was downloaded with no file
\* name in the headers and the declared type application/pdf
C10_Witness ==
    /\ last_dl.ok
    /\ last_dl.pre_ndocs = 1
    /\ last_dl.url = <<"h","t","t","p","s",":","/","/","e","x","a","m","p","l","e",".","c","o","m","/","f","i","l","e">>
    /\ last_dl.resp.content_disposition = <<>>
    /\ last_dl.filename = <<"d","o","c","u","m","e","n","t","_","2",".","p","d","f">>

(***************************************************************************)
(* C11                                                                     *)
(***************************************************************************)
\* C11: in the scrapers that render with a browser, a render whose first
\* navigation fails navigates a second time, with the wait condition commit
\* and a shorter timeout, and returns nothing when that fails too; no render
\* navigates more than twice
C11_RetryOnceWithCommit ==
    (uses_browser(variant) /\ last_render.called) =>
        /\ Len(last_render.navs) <= 2
        /\ ~last_render.navs[1].ok =>
              /\ Len(last_render.navs) = 2
              /\ last_render.navs[2].wait_until = "commit"
              /\ last_render.navs[2].timeout < last_render.navs[1].timeout
              /\ (~last_render.navs[2].ok => ~last_render.present)

(***************************************************************************)
(* C12                                                                     *)
(***************************************************************************)
\* C12: in rag and new_rag, a render whose document loads while the network
\* never gets quiet navigates once and returns the HTML of the page, and the
\* extraction of that HTML returns a page with a non-empty plain_text
C12_DegradeNotFail ==
    (writes_json(variant) /\ last_render.called /\ last_render.idle = "timeout") =>
        /\ last_render.present
        /\ Len(last_render.navs) = 1
        /\ (last_page.called /\ last_page.url = last_render.url) =>
              /\ ~last_page.raised
              /\ last_page.plain_text # << >>

(***************************************************************************)
(* C13                                                                     *)
(***************************************************************************)
\* the render of the current URL met a network failure: no answer, or an
\* answer with a status that is not 2xx
RenderFailed ==
    /\ last_render.called
    /\ last_render.url = url
    /\ (last_render.status = 0 \/ last_render.status >= 300)

\* the download of the current URL met a network failure
DownloadFailed ==
    /\ last_dl.called
    /\ last_dl.url = url
    /\ (last_dl.resp.io = "get_error" \/ last_dl.resp.status >= 300)

\* a page artifact or a page record exists for u
PageRecorded(u) ==
    \/ \E i \in 1..Len(content_index.pages) : content_index.pages[i].url = u
    \/ \E i \in 1..Len(output_file) : output_file[i] = u

\* a document record exists for u
DocumentRecorded(u) ==
    \/ \E i \in 1..Len(downloaded_docs) : downloaded_docs[i].url = u
    \/ \E i \in 1..Len(content_index.documents) : content_index.documents[i].url = u

\* C13: a render or a download that met a network failure returns nothing,
\* leaves its URL visited with no page artifact, page record or document
\* record, and the crawl loop goes on
C13_NetworkFailureContained ==
    /\ RenderFailed =>
          /\ ~last_render.present
          /\ url \in visited_urls
          /\ ~PageRecorded(url)
          /\ pc # "failed"
    /\ DownloadFailed =>
          /\ ~last_dl.ok
          /\ url \in visited_urls
          /\ ~DocumentRecorded(url)
          /\ pc # "failed"

(***************************************************************************)
(* C14                                                                     *)
(***************************************************************************)
\* C14: an exception raised while one URL is processed never stops the
\* crawl while found_urls holds a URL
C14_ExceptionNeverStopsCrawl == pc = "failed" => found_urls = {}

(***************************************************************************)
(* C15                                                                     *)
(***************************************************************************)
\* record is an entry of the manifest on disk under key
InManifest(key, record) ==
    /\ manifest.written
    /\ \E j \in 1..Len(manifest[key]) : manifest[key][j] = record

\* C15: in rag and new_rag, whenever the processing of a URL has completed,
\* the manifest on disk holds every page and every document recorded before
\* that URL
C15_ManifestWrittenDuringRun ==
    (writes_json(variant) /\ pc = "sleep") =>
        /\ \A i \in 1..Len(content_index.pages) :
              content_index.pages[i].url # url =>
                 InManifest("pages", content_index.pages[i])
        /\ \A i \in 1..Len(content_index.documents) :
              content_index.documents[i].url # url =>
                 InManifest("documents", content_index.documents[i])

(***************************************************************************)
(* C16                                                                     *)
(***************************************************************************)
\* C16: in the scrapers that drive a browser, the browser and the client
\* session are each created once per run, both are open whenever the loop
\* renders or downloads, and both are released when scrape() is left, by the
\* end of the loop or by an exception
C16_SessionsOncePerRun ==
    uses_browser(variant) =>
        /\ resources.launches <= 1
        /\ resources.sessions <= 1
        /\ pc # "start" => resources.launches = 1 /\ resources.sessions = 1
        /\ pc \notin {"start", "done", "failed", "exited"} =>
              resources.browser = "open" /\ resources.session = "open"
        /\ pc \in {"done", "failed", "exited"} =>
              resources.browser = "closed" /\ resources.session = "closed"

\* an exception left scrape() after two URLs were fetched with the one
\* browser and the one session, and both are released
C16_Witness ==
    /\ uses_browser(variant)
    /\ pc = "failed"
    /\ Cardinality(DOMAIN fetches) >= 2
    /\ resources = [browser |-> "closed", session |-> "closed", launches |-> 1, sessions |-> 1]

(***************************************************************************)
(* C17                                                                     *)
(***************************************************************************)
\* the steps of a URL that was processed to the end of the loop body
FullyProcessed ==
    { << "pop", "mark", "download", "sleep" >>,
      << "pop", "mark", "render", "sleep" >>,
      << "pop", "mark", "render", "extract", "save", "sleep" >> }

\* C17: a URL is popped only when no URL was popped before it or the URL
\* before it was processed to its end (downloaded, or rendered and, with
\* content, extracted and saved) and the delay after it has elapsed; the
\* loop is the only place that renders or downloads, one URL at a time
C17_StrictlySequential ==
    [][(pc = "loop" /\ pc' = "mark") => (trail = << >> \/ trail \in FullyProcessed)]_vars

\* a second URL has been popped after the first was rendered, extracted,
\* saved and followed by the delay
C17_Witness ==
    /\ pc = "mark"
    /\ trail = << "pop" >>
    /\ visited_urls # {}
    /\ url \notin visited_urls
    /\ Len(content_index.pages) + Len(output_file) >= 1

(***************************************************************************)
(* C18                                                                     *)
(***************************************************************************)
\* the stripped, non-empty strings inside the <nav> elements of a document
NavTexts(nodes) ==
    LET inside == descendants(select(nodes, ByTag("nav")))
    IN {strip(inside[i].text) : i \in {k \in 1..Len(inside) : inside[k].tag = "#text"}}
          \ {<< >>}

\* C18: no text of a <nav> block of the HTML given to
\* extract_structured_content is in a content block or in plain_text of its
\* result
C18_NavTextNeverExtracted ==
    (last_page.called /\ ~last_page.raised /\ last_page.url = url) =>
        \A t \in NavTexts(html_content.html) :
            /\ ~Contains(last_page.plain_text, t)
            /\ \A i \in 1..Len(last_page.content_blocks) :
                  ~Contains(last_page.content_blocks[i].text, t)

(***************************************************************************)
(* C19                                                                     *)
(***************************************************************************)
\* C19: two page records of distinct URLs never have the same artifact path
C19_PageArtifactsDistinct ==
    \A i, j \in 1..Len(content_index.pages) :
        content_index.pages[i].url # content_index.pages[j].url =>
            content_index.pages[i].file_path # content_index.pages[j].file_path

(***************************************************************************)
(* C20                                                                     *)
(***************************************************************************)
\* C20: when scrape() has ended, found_urls is empty and every URL that was
\* ever in found_urls is in visited_urls
C20_RunsUntilFrontierEmpty ==
    pc \in {"done", "failed"} =>
        /\ found_urls = {}
        /\ (discovered \cup {start_url}) \subseteq visited_urls

(***************************************************************************)
(* C21                                                                     *)
(***************************************************************************)
\* the level of a heading element
LevelOf(tag) == CHOOSE level \in 1..6 : HeadingTags[level] = tag

\* the headings of the elements, in the order of the elements
DocumentOrderHeadings(elements) ==
    [i \in 1..Len(elements) |->
        [level |-> LevelOf(elements[i].tag), text |-> get_text(elements[i])]]

\* the h1-h6 elements with text under the main content node of a document, in
\* document order
MainHeadingElements(nodes) ==
    IF main_content(cleaned(nodes)) = << >> THEN << >>
    ELSE SelectSeq(find_all(main_content(cleaned(nodes))[1],
                            {HeadingTags[k] : k \in 1..6}),
                   LAMBDA n : get_text(n) # << >>)

\* C21: the headings of an extracted page are the h1-h6 headings of its main
\* content node in document order, each with its level and text
C21_HeadingsInDocumentOrder ==
    (last_page.called /\ ~last_page.raised /\ last_page.url = url /\ html_content.present) =>
        last_page.headings = DocumentOrderHeadings(MainHeadingElements(html_content.html))

(***************************************************************************)
(* C22                                                                     *)
(***************************************************************************)
\* the first content selector that matches an element of the soup (0: none)
WinningSelector(soup) ==
    IF \E k \in 1..Len(content_selectors) : select(soup, content_selectors[k]) # << >>
    THEN CHOOSE k \in 1..Len(content_selectors) :
            /\ select(soup, content_selectors[k]) # << >>
            /\ \A j \in 1..(k - 1) : select(soup, content_selectors[j]) = << >>
    ELSE 0

\* main is one of the elements and none of them has a longer stripped text
GreatestOf(main, elements) ==
    /\ main # << >>
    /\ \E i \in 1..Len(elements) : elements[i] = main[1]
    /\ \A i \in 1..Len(elements) : text_length(elements[i]) <= text_length(main[1])

\* main is the node the claimed priority picks in the soup
ClaimedMain(main, soup) ==
    IF WinningSelector(soup) # 0
    THEN GreatestOf(main, select(soup, content_selectors[WinningSelector(soup)]))
    ELSE IF select(soup, ByTag("div")) # << >>
    THEN GreatestOf(main, select(soup, ByTag("div")))
    ELSE main = first(select(soup, ByTag("body")))

\* C22: the main content node of a page that is about to be extracted is the longest match of the
\* first content selector that matches; without a match the longest div;
\* without a div the body
C22_MainContentPriority ==
    (pc = "save" /\ html_content.present) =>
        ClaimedMain(main_content(cleaned(html_content.html)), cleaned(html_content.html))

\* pages were extracted whose second article is the main content although a
\* longer div of class content precedes it, and whose outer div is
C22_Witness ==
    /\ site = "layouts"
    /\ pc = "done"
    /\ writes_json(variant)
    /\ {Articles, Divs} \subseteq {content_index.pages[i].url : i \in 1..Len(content_index.pages)}
    /\ content_blocks(main_content(cleaned(ArticlesHtml)))
          = << [type |-> "p", text |-> <<"A"," ","l","o","n","g","e","r"," ","a","r","t","i","c","l","e"," ","t","h","a","n"," ","t","h","e"," ","f","i","r","s","t",".">>] >>
    /\ headings(main_content(cleaned(DivsHtml))) = << [level |-> 1, text |-> <<"O","u","t","e","r">>] >>

(***************************************************************************)
(* C23                                                                     *)
(***************************************************************************)
\* C23: extract_structured_content returns a page for every HTML it is given
\* and never raises; a page of a document without a title element has the
\* title "No Title"
C23_ExtractionNeverRaises ==
    (last_page.called /\ last_page.url = url /\ html_content.present) =>
        /\ ~last_page.raised
        /\ select(html_content.html, ByTag("title")) = << >> => last_page.title = <<"N","o"," ","T","i","t","l","e">>

(***************************************************************************)
(* C24                                                                     *)
(***************************************************************************)
\* C24: when an exception of scrape() has passed through main() of new_rag,
\* save_index() was tried; if it succeeded the manifest holds every page and
\* document recorded so far, and whether it succeeded or failed the
\* exception main() raises is the one that left scrape()
C24_TopLevelFlush ==
    (variant = "new_rag" /\ pc = "exited") =>
        /\ failure.flush \in SaveIo
        /\ failure.flush = "ok" =>
              /\ manifest.written
              /\ manifest.pages = content_index.pages
              /\ manifest.documents = content_index.documents
        /\ failure.raised # NoException
        /\ failure.propagated = failure.raised

\* an exception left scrape() after a page was recorded, the flush itself
\* failed, and main() raised the original exception
C24_Witness ==
    /\ variant = "new_rag"
    /\ pc = "exited"
    /\ failure.flush = "open_error"
    /\ failure.raised = AttributeError
    /\ failure.propagated = AttributeError
    /\ Len(content_index.pages) >= 1
    /\ ~manifest.written

(***************************************************************************)
(* C25                                                                     *)
(***************************************************************************)
\* the ignored patterns of the claim: admin, login, feed, comment, search and
\* REST-discovery markers
ClaimedPatterns == {<<"w","p","-","a","d","m","i","n">>, <<"w","p","-","l","o","g","i","n">>, <<"f","e","e","d">>, <<"c","o","m","m","e","n","t">>, <<"?","s","=">>, <<"w","p","-","j","s","o","n">>}

\* the path of u holds one of the claimed patterns
PathMatches(u) == \E pat \in ClaimedPatterns : Contains(urlparse(u).path, pat)

\* C25: in the WordPress scrapers, is_valid_url rejects every URL whose path
\* holds an ignored pattern, and accepts every non-empty URL of the base
\* network location whose extension is not ignored and whose path holds no
\* ignored pattern
C25_ValidateByPath ==
    (variant # "web" /\ pc = "save") =>
        \A u \in ResolvedLinks :
            /\ PathMatches(u) => ~is_valid_url(variant, base_url, u)
            /\ (/\ u # << >>
                /\ urlparse(u).netloc = urlparse(base_url).netloc
                /\ ~HasExtension(u, ignore_exts(variant))
                /\ ~PathMatches(u)) => is_valid_url(variant, base_url, u)

(***************************************************************************)
(* C26                                                                     *)
(***************************************************************************)
\* a character of [A-Za-z0-9_.-] or a space
AsciiNameChar(c) == IsAlpha(c) \/ IsDigit(c) \/ c \in {"_", ".", "-", " "}

\* a letter or digit of any script, "_", ".", "-" or a space
WordNameChar(c) == IsWord(c) \/ c \in {".", "-", " "}

\* name is the part of resolved before its first "?", with "_" in the place
\* of every character that is not kept
Sanitised(name, resolved, Kept(_)) ==
    /\ Len(name) = Len(SplitHead(resolved, "?"))
    /\ \A i \in 1..Len(name) :
          /\ Kept(name[i])
          /\ name[i] # "?"
          /\ name[i] = IF Kept(resolved[i]) THEN resolved[i] ELSE "_"

\* C26 (as claimed): the sanitised file name of a download holds no query
\* string and only characters of [A-Za-z0-9_.-] and space, every other
\* character of the resolved name being replaced by "_"
C26_AsciiNameOnly ==
    last_dl.created => Sanitised(last_dl.title, last_dl.filename, AsciiNameChar)

\* C26 (amended): the same with the word characters of any script in the
\* place of [A-Za-z0-9_]: the name "../résumé.pdf?v=2" becomes
\* ".._résumé.pdf"
C26_WordCharNameOnly ==
    /\ last_dl.created => Sanitised(last_dl.title, last_dl.filename, WordNameChar)
    /\ (last_dl.created /\ last_dl.filename = <<".",".","/","r","é","s","u","m","é",".","p","d","f","?","v","=","2">>)
          => last_dl.title = <<".",".","_","r","é","s","u","m","é",".","p","d","f">>

\* a name with a separator, a letter outside ASCII and a query was sanitised
C26_Witness ==
    /\ last_dl.created
    /\ last_dl.filename = <<".",".","/","r","é","s","u","m","é",".","p","d","f","?","v","=","2">>
    /\ last_dl.title = <<".",".","_","r","é","s","u","m","é",".","p","d","f">>

(***************************************************************************)
(* C27                                                                     *)
(***************************************************************************)
\* the URLs of the entries of a list of the index
EntryUrls(entries) == [i \in 1..Len(entries) |-> entries[i].url]

\* no URL occurs twice in the sequence
NoRepeats(urls) == \A i, j \in 1..Len(urls) : urls[i] = urls[j] => i = j

\* C27: in rag and new_rag, every URL of a page or document entry of the
\* index is in visited_urls, the index holds at most one entry for a URL, and
\* its document list equals downloaded_docs in the same order
C27_IndexConsistent ==
    writes_json(variant) =>
        /\ \A i \in 1..Len(content_index.pages) : content_index.pages[i].url \in visited_urls
        /\ \A i \in 1..Len(content_index.documents) :
              content_index.documents[i].url \in visited_urls
        /\ NoRepeats(EntryUrls(content_index.pages) \o EntryUrls(content_index.documents))
        /\ content_index.documents = downloaded_docs

\* the run has ended with two pages and a document in the index
C27_Witness ==
    /\ writes_json(variant)
    /\ pc = "done"
    /\ Len(content_index.pages) >= 2
    /\ Len(content_index.documents) >= 1
    /\ content_index.documents = downloaded_docs

(***************************************************************************)
(* C28                                                                     *)
(***************************************************************************)
\* download_document fails on resp: an error of the request, a status it
\* does not accept, or an error while the file is written
FailingResponse(resp) ==
    \/ resp.io \in {"get_error", "write_error"}
    \/ IF variant = "web" THEN resp.status >= 400 ELSE resp.status # 200

\* C28: a download_document call that fails returns failure and leaves
\* downloaded_docs and the document list of the index as they were
C28_FailedDownloadRecordsNothing ==
    [][(last_dl' # last_dl /\ FailingResponse(last_dl'.resp)) =>
          /\ ~last_dl'.ok
          /\ downloaded_docs' = downloaded_docs
          /\ content_index'.documents = content_index.documents]_vars

\* after a recorded download, a download failed while its file was written:
\* the file exists and the number of recorded documents is as before
C28_Witness ==
    /\ last_dl.called
    /\ last_dl.resp.io = "write_error"
    /\ last_dl.created
    /\ ~last_dl.ok
    /\ last_dl.pre_ndocs >= 1
    /\ Len(downloaded_docs) = last_dl.pre_ndocs

(***************************************************************************)
(* C29                                                                     *)
(***************************************************************************)
\* the name holds no path separator
SingleName(name) == \A i \in 1..Len(name) : name[i] \notin {"/", "\\"}

\* C29: the path of every file download_document writes is the documents
\* folder joined with one name that holds no path separator
C29_WrittenInsideDocsFolder ==
    last_dl.created =>
        \E name \in {SubSeq(last_dl.file_path, Len(docs_folder) + 2, Len(last_dl.file_path))} :
            /\ last_dl.file_path = docs_folder \o << "/" >> \o name
            /\ name # << >>
            /\ SingleName(name)
            /\ last_dl.file_path \in files

\* files were written for header names with "../" and with "..\"
C29_Witness ==
    /\ last_dl.created
    /\ LastHeaderName = <<".",".","\\","u","p",".","p","d","f">>
    /\ last_dl.file_path = path_join(docs_folder, <<".",".","_","u","p",".","p","d","f">>)
    /\ path_join(docs_folder, <<".",".","_","r","é","s","u","m","é",".","p","d","f">>) \in files

\* C30 helper: the invocation has returned or raised
Handled == pc = "returned"

\* C30 helper: on DialogCodeHook the handler asks for userEmail first, then for
\* UserQuestion, and delegates only when both slots are filled
C30_DialogOrder ==
    (/\ Handled
     /\ event.client = "ok"
     /\ event.intent_name = "CaptureEmail"
     /\ event.invocation_source = "DialogCodeHook"
     /\ event.slots = "dict")
    => /\ event.userEmail # "filled"
          => response.type = "ElicitSlot" /\ response.slotToElicit = "userEmail"
       /\ event.userEmail = "filled" /\ event.UserQuestion # "filled"
          => response.type = "ElicitSlot" /\ response.slotToElicit = "UserQuestion"
       /\ response.type = "Delegate"
          <=> event.userEmail = "filled" /\ event.UserQuestion = "filled"

\* C30 helper: publish is called only on FulfillmentCodeHook of CaptureEmail, and at most once
C30_PublishOnce ==
    Handled
    => /\ response.publishes <= 1
       /\ response.publishes = 1
          => /\ event.intent_name = "CaptureEmail"
             /\ event.invocation_source = "FulfillmentCodeHook"
       /\ response.type = "Delegate" => event.invocation_source = "DialogCodeHook"

\* C30 helper: an exception is answered with Close / Failed and never leaves the handler
C30_ExceptionsAnswered ==
    Handled
    => /\ ~response.raised
       /\ response.returned
       /\ response.error # "none" => response.type = "Close" /\ response.state = "Failed"

\* C30: for CaptureEmail the handler follows the slot dialog in order (userEmail, then
\* UserQuestion, then Delegate), publishes to SNS only on FulfillmentCodeHook and at most
\* once per invocation, and turns any exception into a Close response with state Failed
C30_DialogPublishAndFailures ==
    C30_DialogOrder /\ C30_PublishOnce /\ C30_ExceptionsAnswered

====
